---------------------------- MODULE Spec2Model ----------------------------
(***************************************************************************)
(* A model of the binmatch crate (src/lib.rs): the Pattern constructors    *)
(* Pattern::new and Pattern::new_unchecked, and the scanning operations    *)
(* match_chunk, find_matches_with_index, find_matches and has_match.       *)
(*                                                                         *)
(* A Rust char is modelled by its Unicode scalar value, a &str / String by *)
(* the sequence of its chars, a Vec<u8> by a sequence of 0..255.  Indices  *)
(* reported by the program are 0-based, as in the source; TLA+ sequences   *)
(* are 1-based, so position j of the source is element j + 1 here.         *)
(***************************************************************************)
EXTENDS Integers, Sequences, FiniteSets, TLC

(***************************************************************************)
(* Bounds of the model.                                                    *)
(***************************************************************************)
\* longest arbitrary input string given to the constructors (in chars)
MaxText == 4
\* largest number of tokens of a well-formed signature given to the constructors
MaxSig == 4
\* largest number of tokens of the signature of a Pattern used for scanning
MaxPat == 3
\* longest haystack / chunk handed to a scanning operation
MaxHay == 4

(***************************************************************************)
(* Characters.                                                             *)
(***************************************************************************)
\* ' ', the character removed by pattern.replace(' ', "")
SPACE == 32
\* '?', the placeholder character
QUESTION == 63
\* '_', the ignore character
UNDERSCORE == 95

\* the chars the arbitrary inputs are drawn from:
\* ' ', '0', '1', '?', 'F', 'G', '_', 'a', U+00DF (sharp s), U+00E9 (e acute)
InputChars == {32, 48, 49, 63, 70, 71, 95, 97, 223, 233}

\* the bytes haystacks are drawn from
HayBytes == {0, 1}

\* the tokens well-formed signatures are built from: "00", "01", "??", "__"
SigTokens == { <<48, 48>>, <<48, 49>>, <<63, 63>>, <<95, 95>> }

\* pub const ALLOWED_ALPHABET: '0'..'9', 'A'..'F', '?', '_'
ALLOWED_ALPHABET == (48..57) \cup (65..70) \cup {63, 95}

(***************************************************************************)
(* Library functions the constructors call.                                *)
(***************************************************************************)
\* str::replace(' ', ""): every space removed, the other chars kept in order
replace(pattern) == SelectSeq(pattern, LAMBDA c : c # SPACE)

\* char::to_uppercase: the uppercase mapping of one char, itself a string
\* (ASCII and Latin-1 range; U+00DF expands to "SS", U+00B5 and U+00FF
\* leave Latin-1)
char_to_uppercase(c) ==
    IF c \in 97..122 THEN << c - 32 >>
    ELSE IF c = 223 THEN << 83, 83 >>
    ELSE IF c = 181 THEN << 924 >>
    ELSE IF c = 255 THEN << 376 >>
    ELSE IF c \in 224..254 /\ c # 247 THEN << c - 32 >>
    ELSE << c >>

\* str::to_uppercase: the concatenation of the chars' uppercase mappings
RECURSIVE to_uppercase(_)
to_uppercase(s) ==
    IF s = << >> THEN << >>
    ELSE char_to_uppercase(Head(s)) \o to_uppercase(Tail(s))

\* char::len_utf8: the number of bytes of the char's UTF-8 encoding
len_utf8(c) ==
    IF c < 128 THEN 1 ELSE IF c < 2048 THEN 2 ELSE IF c < 65536 THEN 3 ELSE 4

\* String::len: the length of the string in bytes
RECURSIVE str_len(_)
str_len(s) ==
    IF s = << >> THEN 0 ELSE len_utf8(Head(s)) + str_len(Tail(s))

\* slice::chunks(2): consecutive chunks of two elements, the last one shorter
\* when the length is odd
RECURSIVE chunks2(_)
chunks2(s) ==
    IF s = << >> THEN << >>
    ELSE IF Len(s) = 1 THEN << s >>
    ELSE << SubSeq(s, 1, 2) >> \o chunks2(SubSeq(s, 3, Len(s)))

\* `c as u8`: the char's scalar value truncated to 8 bits
as_u8(c) == c % 256

\* String::from_utf8 succeeds on a vector of at most two bytes iff it is
\* ASCII or one well-formed two-byte sequence
from_utf8_ok(bytes) ==
    \/ \A k \in 1..Len(bytes) : bytes[k] < 128
    \/ Len(bytes) = 2 /\ bytes[1] \in 194..223 /\ bytes[2] \in 128..191

\* a to_digit that forgets that 'A' stands for ten
to_digit16_from_zero(b) ==
    IF b \in 48..57 THEN b - 48
    ELSE IF b \in 65..70 THEN b - 65
    ELSE IF b \in 97..102 THEN b - 97
    ELSE -1

\* char::to_digit(16) on a byte: 0..15, or -1 when the byte is no hex digit
to_digit16(b) ==
    IF b \in 48..57 THEN b - 48
    ELSE IF b \in 65..70 THEN b - 55
    ELSE IF b \in 97..102 THEN b - 87
    ELSE -1

\* the fold of u8::from_str_radix over the digits, -1 once a digit is invalid
RECURSIVE radix_value(_, _)
radix_value(v, acc) ==
    IF v = << >> THEN acc
    ELSE IF to_digit16(Head(v)) < 0 THEN -1
    ELSE radix_value(Tail(v), acc * 16 + to_digit16(Head(v)))

\* a from_str_radix that skips the chars that are no digits
from_str_radix_skip(v) ==
    radix_value(SelectSeq(v, LAMBDA b : to_digit16(b) >= 0), 0)

\* u8::from_str_radix(v, 16): the value 0..255, or -1 for Err(ParseIntError)
\* (empty string, invalid digit, or a value that does not fit a u8); one
\* leading '+' is accepted
from_str_radix(v) ==
    LET digits == IF Len(v) > 1 /\ v[1] = 43 THEN Tail(v) ELSE v
        n == radix_value(digits, 0)
    IN  IF digits = << >> \/ digits = << 43 >> \/ digits = << 45 >> THEN -1
        ELSE IF n > 255 THEN -1
        ELSE n

(***************************************************************************)
(* PatternElement, Pattern, BinmatchError and the constructors' outcomes.  *)
(***************************************************************************)
Literal(b) == [tag |-> "Literal", byte |-> b]
Placeholder == [tag |-> "Placeholder"]
Ignore == [tag |-> "Ignore"]

\* struct Pattern { data, len }
Pattern(data, len) == [data |-> data, len |-> len]

PatternParseError(c) == [name |-> "PatternParseError", char |-> c]
PatternLengthError == [name |-> "PatternLengthError"]
\* the errors of the standard library that `?` boxes
FromUtf8Error == [name |-> "FromUtf8Error"]
ParseIntError == [name |-> "ParseIntError"]

Ok(p) == [kind |-> "Ok", pattern |-> p]
Err(e) == [kind |-> "Err", error |-> e]
\* a panic, with the assertion or expect that raised it
Panic(site) == [kind |-> "Panic", site |-> site]
\* the constructor has not been called
NotCalled == [kind |-> "NotCalled"]

\* an alphabet scan that reports the last offending char, not the first
first_not_allowed_last(string, k) ==
    LET bad == { j \in k..Len(string) : string[j] \notin ALLOWED_ALPHABET }
    IN  IF bad = {} THEN 0 ELSE CHOOSE j \in bad : \A m \in bad : m <= j

\* the loop `for char in string.chars()`: the 1-based position of the first
\* char that ALLOWED_ALPHABET does not contain, 0 when there is none
RECURSIVE first_not_allowed(_, _)
first_not_allowed(string, k) ==
    IF k > Len(string) THEN 0
    ELSE IF string[k] \notin ALLOWED_ALPHABET THEN k
    ELSE first_not_allowed(string, k + 1)

\* the loop of Pattern::new over the chunks: Ok(data) with one element pushed
\* per chunk, or the error of the first chunk that `?` returns on
RECURSIVE new_chunks(_, _)
new_chunks(cs, data) ==
    IF cs = << >> THEN [kind |-> "Ok", data |-> data]
    ELSE LET bytes == [k \in 1..Len(Head(cs)) |-> as_u8(Head(cs)[k])]
         IN  IF ~ from_utf8_ok(bytes) THEN Err(FromUtf8Error)
             ELSE IF bytes = << QUESTION, QUESTION >>
                  THEN new_chunks(Tail(cs), Append(data, Placeholder))
             ELSE IF bytes = << UNDERSCORE, UNDERSCORE >>
                  THEN new_chunks(Tail(cs), Append(data, Ignore))
             ELSE IF from_str_radix(bytes) < 0 THEN Err(ParseIntError)
             ELSE new_chunks(Tail(cs), Append(data, Literal(from_str_radix(bytes))))

\* Pattern::new
new(pattern) ==
    LET string == to_uppercase(replace(pattern))
        bad == first_not_allowed(string, 1)
        parsed == new_chunks(chunks2(string), << >>)
    IN  IF str_len(string) % 2 # 0 THEN Err(PatternLengthError)
        ELSE IF bad # 0 THEN Err(PatternParseError(string[bad]))
        ELSE IF parsed.kind # "Ok" THEN parsed
        ELSE Ok(Pattern(parsed.data, Len(parsed.data)))

\* the loop of Pattern::new_unchecked over the chunks: Ok(data), or the panic
\* of the first chunk whose expect fails
RECURSIVE new_unchecked_chunks(_, _)
new_unchecked_chunks(cs, data) ==
    IF cs = << >> THEN [kind |-> "Ok", data |-> data]
    ELSE LET bytes == [k \in 1..Len(Head(cs)) |-> as_u8(Head(cs)[k])]
         IN  IF ~ from_utf8_ok(bytes)
                  THEN Panic("Could not parse a chunk to a String")
             ELSE IF bytes = << QUESTION, QUESTION >>
                  THEN new_unchecked_chunks(Tail(cs), Append(data, Placeholder))
             ELSE IF bytes = << UNDERSCORE, UNDERSCORE >>
                  THEN new_unchecked_chunks(Tail(cs), Append(data, Ignore))
             ELSE IF from_str_radix(bytes) < 0
                  THEN Panic("Could not parse the string to a u8")
             ELSE new_unchecked_chunks(Tail(cs),
                      Append(data, Literal(from_str_radix(bytes))))

\* Pattern::new_unchecked
new_unchecked(pattern) ==
    LET string == to_uppercase(replace(pattern))
        bad == first_not_allowed(string, 1)
        parsed == new_unchecked_chunks(chunks2(string), << >>)
    IN  IF str_len(string) % 2 # 0 THEN Panic("assert!(string.len() % 2 == 0)")
        ELSE IF bad # 0 THEN Panic("assert!(ALLOWED_ALPHABET.contains(&char))")
        ELSE IF parsed.kind # "Ok" THEN parsed
        ELSE Ok(Pattern(parsed.data, Len(parsed.data)))

(***************************************************************************)
(* The state of a program that uses the crate.                             *)
(***************************************************************************)
VARIABLES
    text,        \* the &str handed to the constructors
    checked,     \* what Pattern::new(text) returned
    unchecked,   \* what Pattern::new_unchecked(text) returned or panicked with
    self,        \* the Pattern the scanning operations are called on
    op,          \* the public scanning operation that was called
    haystack,    \* the haystack argument of that operation
    pc,          \* where the program is
    i,           \* the enumerate() counter of the windows loop
    matches,     \* the local `matches` of find_matches_with_index
    chunk,       \* the chunk argument of the running match_chunk call
    index,       \* the enumerate() counter of the loop of match_chunk
    captures,    \* the local `matches` of match_chunk
    chunk_ret,   \* what the last match_chunk call returned
    ret          \* what the public operation returned, or its panic

vars == << text, checked, unchecked, self, op, haystack, pc, i, matches,
           chunk, index, captures, chunk_ret, ret >>

scan_vars == << self, op, haystack, i, matches, chunk, index, captures,
                chunk_ret, ret >>

\* all sequences over S of length at most n
SeqsUpTo(S, n) == UNION { [1..k -> S] : k \in 0..n }

\* the tokens of a signature written one after the other, a space between
\* two tokens, as in "00 __ 00 ??"
RECURSIVE JoinTokens(_)
JoinTokens(toks) ==
    IF toks = << >> THEN << >>
    ELSE IF Len(toks) = 1 THEN Head(toks)
    ELSE Head(toks) \o << SPACE >> \o JoinTokens(Tail(toks))

SignaturesUpTo(n) == { JoinTokens(toks) : toks \in SeqsUpTo(SigTokens, n) }

\* the strings the constructors are called on: every short string, and the
\* well-formed signatures of up to MaxSig tokens
Texts == SeqsUpTo(InputChars, MaxText) \cup SignaturesUpTo(MaxSig)
\* the signatures of the Patterns the scanning operations are called on
Signatures == SignaturesUpTo(MaxPat)
Haystacks == SeqsUpTo(HayBytes, MaxHay)

NoPattern == Pattern(<< >>, 0)

ScanIdle ==
    /\ op = "none"
    /\ haystack = << >>
    /\ i = 0
    /\ matches = << >>
    /\ chunk = << >>
    /\ index = 0
    /\ captures = << >>
    /\ chunk_ret = << << >>, FALSE >>
    /\ ret = NotCalled

(***************************************************************************)
(* The constructors, called on an arbitrary string.                        *)
(***************************************************************************)
InitCompile ==
    /\ text \in Texts
    /\ checked = NotCalled
    /\ unchecked = NotCalled
    /\ self = NoPattern
    /\ pc = "start"
    /\ ScanIdle

\* let r = Pattern::new(text)
New ==
    /\ pc = "start"
    /\ checked = NotCalled
    /\ checked' = new(text)
    /\ UNCHANGED << text, unchecked, pc, scan_vars >>

\* let p = Pattern::new_unchecked(text); a panic ends the program
NewUnchecked ==
    /\ pc = "start"
    /\ unchecked = NotCalled
    /\ unchecked' = new_unchecked(text)
    /\ pc' = IF unchecked'.kind = "Panic" THEN "abort" ELSE "start"
    /\ UNCHANGED << text, checked, scan_vars >>

NextCompile == New \/ NewUnchecked

SpecCompile == InitCompile /\ [][NextCompile]_vars

(***************************************************************************)
(* The scanning operations, called on a constructed Pattern.               *)
(***************************************************************************)
\* the state after `let self = Pattern::new_unchecked(text)` for a signature
InitScan ==
    /\ text \in Signatures
    /\ checked = NotCalled
    /\ unchecked = new_unchecked(text)
    /\ self = unchecked.pattern
    /\ pc = "ready"
    /\ ScanIdle

Min(a, b) == IF a < b THEN a ELSE b

\* slice::windows(size) panics when size is 0; the iterator then yields the
\* windows starting at 0, 1, ..., len - size
windows_panics(size) == size = 0
window_at(h, size, k) == SubSeq(h, k + 1, k + size)
\* a windows iterator that stops one window early
has_window_short(h, size, k) == k + size < Len(h)
has_window(h, size, k) == k + size <= Len(h)

\* captures left with their window-relative indices
add_offset_relative(caps, off) == caps

\* .iter().map(|m| (m.0, m.1 + i)).collect()
add_offset(caps, off) == [k \in 1..Len(caps) |-> << caps[k][1], caps[k][2] + off >>]

\* the new captures put in front of the earlier ones
extend_front(ms, more) == more \o ms

\* matches.extend(more)
extend(ms, more) == ms \o more

\* a mismatch that returns the captures accumulated so far
mismatch_return_keep(caps) == << caps, FALSE >>

\* `return (Vec::new(), false); // Discard all matches`, given the captures
\* accumulated so far
mismatch_return(caps) == << << >>, FALSE >>

\* matches.iter().map(|(matched, _)| *matched).collect()
strip_index(ms) == [k \in 1..Len(ms) |-> ms[k][1]]

\* a call self.match_chunk(c): the assert_eq!, then the loop is entered
enter_match_chunk(c) ==
    /\ chunk' = c
    /\ IF self.len # Len(c)
       THEN /\ pc' = "panic"
            /\ ret' = Panic("assert_eq!(self.len, chunk.len())")
            /\ UNCHANGED << index, captures >>
       ELSE /\ pc' = "chunk"
            /\ index' = 0
            /\ captures' = << >>
            /\ UNCHANGED ret

\* a call of a public operation that loops over haystack.windows(self.len)
enter_windows(name, h) ==
    /\ op' = name
    /\ haystack' = h
    /\ i' = 0
    /\ matches' = << >>
    /\ IF windows_panics(self.len)
       THEN /\ pc' = "panic"
            /\ ret' = Panic("window size must be non-zero")
       ELSE /\ pc' = "windows"
            /\ UNCHANGED ret
    /\ UNCHANGED << text, checked, unchecked, self, chunk, index, captures, chunk_ret >>

\* pattern.match_chunk(c), called by the user
MatchChunkCall ==
    /\ pc = "ready"
    /\ \E c \in Haystacks :
          /\ op' = "match_chunk"
          /\ enter_match_chunk(c)
    /\ UNCHANGED << text, checked, unchecked, self, haystack, i, matches, chunk_ret >>

\* pattern.find_matches_with_index(h)
FindMatchesWithIndexCall ==
    /\ pc = "ready"
    /\ \E h \in Haystacks : enter_windows("find_matches_with_index", h)

\* pattern.find_matches(h), which calls find_matches_with_index(h)
FindMatchesCall ==
    /\ pc = "ready"
    /\ \E h \in Haystacks : enter_windows("find_matches", h)

\* pattern.has_match(h)
HasMatchCall ==
    /\ pc = "ready"
    /\ \E h \in Haystacks : enter_windows("has_match", h)

\* the windows iterator yields the next window and match_chunk is called on it
NextWindow ==
    /\ pc = "windows"
    /\ has_window(haystack, self.len, i)
    /\ enter_match_chunk(window_at(haystack, self.len, i))
    /\ UNCHANGED << text, checked, unchecked, self, op, haystack, i, matches, chunk_ret >>

\* the windows iterator is exhausted: the loop ends and the operation returns
WindowsEnd ==
    /\ pc = "windows"
    /\ ~ has_window(haystack, self.len, i)
    /\ ret' = CASE op = "find_matches_with_index" -> matches
                [] op = "find_matches" -> strip_index(matches)
                [] op = "has_match" -> FALSE
    /\ pc' = "done"
    /\ UNCHANGED << text, checked, unchecked, self, op, haystack, i, matches,
                    chunk, index, captures, chunk_ret >>

\* one iteration of the loop of match_chunk over chunk.iter().zip(self.data)
MatchChunkStep ==
    /\ pc = "chunk"
    /\ index < Min(Len(chunk), Len(self.data))
    /\ LET actual == chunk[index + 1]
           expected == self.data[index + 1]
       IN  IF expected.tag = "Literal" /\ expected.byte # actual
           THEN \* return (Vec::new(), false)
                /\ chunk_ret' = mismatch_return(captures)
                /\ pc' = "returned"
                /\ UNCHANGED << index, captures >>
           ELSE /\ captures' = IF expected.tag = "Placeholder"
                               THEN Append(captures, << actual, index >>)
                               ELSE captures
                /\ index' = index + 1
                /\ UNCHANGED << pc, chunk_ret >>
    /\ UNCHANGED << text, checked, unchecked, self, op, haystack, i, matches, chunk, ret >>

\* the loop of match_chunk ends: return (matches, true)
MatchChunkReturn ==
    /\ pc = "chunk"
    /\ ~ (index < Min(Len(chunk), Len(self.data)))
    /\ chunk_ret' = << captures, TRUE >>
    /\ pc' = "returned"
    /\ UNCHANGED << text, checked, unchecked, self, op, haystack, i, matches,
                    chunk, index, captures, ret >>

\* find_matches_with_index: matches.extend(...) with the captures of the window
FindMatchesExtend ==
    /\ pc = "returned"
    /\ op \in {"find_matches_with_index", "find_matches"}
    /\ matches' = extend(matches, add_offset(chunk_ret[1], i))
    /\ i' = i + 1
    /\ pc' = "windows"
    /\ UNCHANGED << text, checked, unchecked, self, op, haystack,
                    chunk, index, captures, chunk_ret, ret >>

\* has_match: `if self.match_chunk(sub.to_vec()).1 { return true; }`
HasMatchTest ==
    /\ pc = "returned"
    /\ op = "has_match"
    /\ IF chunk_ret[2]
       THEN /\ ret' = TRUE
            /\ pc' = "done"
            /\ UNCHANGED i
       ELSE /\ i' = i + 1
            /\ pc' = "windows"
            /\ UNCHANGED ret
    /\ UNCHANGED << text, checked, unchecked, self, op, haystack, matches,
                    chunk, index, captures, chunk_ret >>

NextScan ==
    \/ MatchChunkCall
    \/ FindMatchesWithIndexCall
    \/ FindMatchesCall
    \/ HasMatchCall
    \/ NextWindow
    \/ WindowsEnd
    \/ MatchChunkStep
    \/ MatchChunkReturn
    \/ FindMatchesExtend
    \/ HasMatchTest

SpecScan == InitScan /\ [][NextScan]_vars

(***************************************************************************)
(* Properties of the constructors (checked under SpecCompile).             *)
(***************************************************************************)
\* the normalized form of the input: spaces removed, uppercased
Normalized == to_uppercase(replace(text))

\* the alphabet the specification allows: 0-9, A-F, '?', '_'
IsHexDigit(c) == c \in (48..57) \cup (65..70)
IsAllowed(c) == IsHexDigit(c) \/ c = 63 \/ c = 95
HexValue(c) == IF c <= 57 THEN c - 48 ELSE c - 55

\* the number of two-character chunks of a string of even length
NumChunks(n) == Len(n) \div 2

\* chunk k of n is two hex digits, "??" or "__"
IsToken(n, k) ==
    \/ IsHexDigit(n[2 * k - 1]) /\ IsHexDigit(n[2 * k])
    \/ n[2 * k - 1] = 63 /\ n[2 * k] = 63
    \/ n[2 * k - 1] = 95 /\ n[2 * k] = 95

\* chunk k of n holds '?' or '_' but is neither "??" nor "__"
IsMixedChunk(n, k) ==
    /\ {n[2 * k - 1], n[2 * k]} \cap {63, 95} # {}
    /\ ~ IsToken(n, k)

\* the element a token stands for
ElementOf(n, k) ==
    IF n[2 * k - 1] = 63 THEN Placeholder
    ELSE IF n[2 * k - 1] = 95 THEN Ignore
    ELSE Literal(16 * HexValue(n[2 * k - 1]) + HexValue(n[2 * k]))

WellFormed(n) ==
    /\ Len(n) % 2 = 0
    /\ \A k \in 1..NumChunks(n) : IsToken(n, k)

HasDisallowed(n) == \E k \in 1..Len(n) : ~ IsAllowed(n[k])

\* the first char of n, left to right, outside the allowed alphabet
FirstDisallowed(n) ==
    LET k == CHOOSE k \in 1..Len(n) :
                 /\ ~ IsAllowed(n[k])
                 /\ \A j \in 1..(k - 1) : IsAllowed(n[j])
    IN  n[k]

\* C3: for every signature whose normalized form has even length and
\* consists only of chunks that are two hex digits, "??" or "__",
\* Pattern::new succeeds with exactly one element per chunk, in order
\* ("??" -> Placeholder, "__" -> Ignore, hex -> Literal of the base-16 value),
\* so that len * 2 is the normalized character count and len is the number
\* of elements.
C3_NewWellFormed ==
    (checked.kind # "NotCalled" /\ WellFormed(Normalized)) =>
        /\ checked.kind = "Ok"
        /\ checked.pattern.data =
               [k \in 1..NumChunks(Normalized) |-> ElementOf(Normalized, k)]
        /\ checked.pattern.len * 2 = Len(Normalized)
        /\ checked.pattern.len = Len(checked.pattern.data)

\* Pattern::new("00 __ 00 ??") returned Literal(0), Ignore, Literal(0), Placeholder
C3_Witness ==
    /\ text = << 48, 48, 32, 95, 95, 32, 48, 48, 32, 63, 63 >>
    /\ checked = Ok(Pattern(<< Literal(0), Ignore, Literal(0), Placeholder >>, 4))

\* C4 as stated: for every input whose normalized form contains a char
\* outside 0-9A-F?_, Pattern::new fails with PatternParseError carrying the
\* first such char of the normalized string.
C4_ParseErrorAlways ==
    (checked.kind # "NotCalled" /\ HasDisallowed(Normalized)) =>
        checked = Err(PatternParseError(FirstDisallowed(Normalized)))

\* C4 amended: for every input whose normalized form has an even length in
\* UTF-8 bytes and contains a char outside 0-9A-F?_, Pattern::new fails with
\* PatternParseError carrying the first such char; when that length is odd
\* the length check comes first and Pattern::new fails with
\* PatternLengthError.
C4_ParseErrorWhenEven ==
    (checked.kind # "NotCalled" /\ HasDisallowed(Normalized)) =>
        IF str_len(Normalized) % 2 = 0
        THEN checked = Err(PatternParseError(FirstDisallowed(Normalized)))
        ELSE checked = Err(PatternLengthError)

\* Pattern::new("G0\u{e9}") reported 'G', the first of two disallowed chars
C4_Witness ==
    /\ text = << 71, 48, 233 >>
    /\ checked = Err(PatternParseError(71))

\* C5: for every input whose normalized form has an odd number of
\* characters, Pattern::new fails with PatternLengthError.
C5_OddLengthError ==
    (checked.kind # "NotCalled" /\ Len(Normalized) % 2 = 1) =>
        checked = Err(PatternLengthError)

\* C8: Pattern::new_unchecked agrees with Pattern::new on every input: when
\* new returns Ok(P), new_unchecked returns a Pattern equal to P; when new
\* returns an error, new_unchecked panics; and for an input that passes the
\* length and alphabet assertions the hex-parse step of new_unchecked does
\* not panic.
C8_UncheckedAgrees ==
    (checked.kind # "NotCalled" /\ unchecked.kind # "NotCalled") =>
        /\ checked.kind = "Ok" => unchecked = checked
        /\ checked.kind = "Err" => unchecked.kind = "Panic"
        /\ (str_len(Normalized) % 2 = 0 /\ ~ HasDisallowed(Normalized)) =>
               unchecked # Panic("Could not parse the string to a u8")

\* C9: for every signature whose normalized form has even length, lies
\* within the allowed alphabet and holds a chunk that mixes '?' or '_' with
\* anything but its twin, Pattern::new fails with the numeric-parse error and
\* returns no Pattern.
C9_MixedChunkFails ==
    ( /\ checked.kind # "NotCalled"
      /\ Len(Normalized) % 2 = 0
      /\ ~ HasDisallowed(Normalized)
      /\ \E k \in 1..NumChunks(Normalized) : IsMixedChunk(Normalized, k) ) =>
        checked = Err(ParseIntError)

\* Pattern::new("00?a") failed on its second chunk "?A"
C9_Witness ==
    /\ text = << 48, 48, 63, 97 >>
    /\ checked = Err(ParseIntError)

(***************************************************************************)
(* Properties of the scanning operations (checked under SpecScan).         *)
(***************************************************************************)
\* the length L of the Pattern and the window start offsets of the haystack
L == Len(self.data)
Starts == 0..(Len(haystack) - L)

IsLiteralAt(j) == self.data[j + 1].tag = "Literal"
IsPlaceholderAt(j) == self.data[j + 1].tag = "Placeholder"

\* the Placeholder positions of the Pattern
PlaceholderPositions == { j \in 0..(L - 1) : IsPlaceholderAt(j) }

\* every Literal position of the Pattern equals the byte of c at it
ChunkMatches(c) ==
    \A j \in 0..(L - 1) : IsLiteralAt(j) => c[j + 1] = self.data[j + 1].byte

\* the window of the haystack that starts at offset s matches
WindowMatches(s) ==
    \A j \in 0..(L - 1) :
        IsLiteralAt(j) => haystack[s + j + 1] = self.data[j + 1].byte

MatchingStarts == { s \in Starts : WindowMatches(s) }

\* the captures of a scan: one per matching window and Placeholder position
CapturePoints == MatchingStarts \X PlaceholderPositions

\* window order first, position within the window second
Before(q, r) == q[1] < r[1] \/ (q[1] = r[1] /\ q[2] < r[2])

\* the 1-based place of capture point q in that order
PlaceOf(q) == Cardinality({ r \in CapturePoints : Before(r, q) }) + 1

\* C1: for a Pattern of length L >= 1, find_matches_with_index returns
\* exactly the captures (h[i+j], i+j) of the matching windows i = 0, 1, ...,
\* len(h) - L in ascending order of i and, within a window, of the
\* Placeholder position j; windows with a Literal mismatch and Ignore
\* positions contribute nothing; a haystack shorter than L gives the empty
\* sequence, and the call never panics.
C1_FindMatchesWithIndex ==
    (op = "find_matches_with_index" /\ self.len >= 1) =>
        /\ pc # "panic"
        /\ pc = "done" =>
              /\ Len(ret) = Cardinality(CapturePoints)
              /\ \A q \in CapturePoints :
                     ret[PlaceOf(q)] = << haystack[q[1] + q[2] + 1], q[1] + q[2] >>

\* a scan that returned the captures of two windows and skipped a third
C1_Witness ==
    /\ op = "find_matches_with_index"
    /\ pc = "done"
    /\ Cardinality(MatchingStarts) = 2
    /\ Cardinality(Starts) = 3
    /\ Len(ret) >= 2
    /\ \E j \in 0..(L - 1) : IsLiteralAt(j)

\* C2: for a Pattern of length L >= 1, has_match returns true iff some
\* window i in 0..len(h) - L has every Literal position equal to the
\* haystack byte; it returns false when no window matches (so whenever
\* len(h) < L), never panics, and examines no window after the first
\* matching one.
C2_HasMatch ==
    (op = "has_match" /\ self.len >= 1) =>
        /\ pc # "panic"
        /\ pc = "done" => ret = (MatchingStarts # {})
        /\ \A s \in MatchingStarts : i <= s

\* has_match returned true at the first matching window, with windows left
C2_Witness ==
    /\ op = "has_match"
    /\ pc = "done"
    /\ ret = TRUE
    /\ i >= 1
    /\ i < Len(haystack) - L

\* the captures of a matching chunk c: (c[j], j) for the Placeholder
\* positions j in ascending order
IsCapturesOf(caps, c) ==
    /\ Len(caps) = Cardinality(PlaceholderPositions)
    /\ \A j \in PlaceholderPositions :
           caps[Cardinality({ k \in PlaceholderPositions : k < j }) + 1]
               = << c[j + 1], j >>

\* position j is the first Literal of the Pattern that c mismatches
IsFirstMismatch(c, j) ==
    /\ IsLiteralAt(j) /\ c[j + 1] # self.data[j + 1].byte
    /\ \A k \in 0..(j - 1) : IsLiteralAt(k) => c[k + 1] = self.data[k + 1].byte

\* C7: for a chunk as long as the Pattern, match_chunk returns
\* (captures, true) when every Literal position equals the chunk byte, the
\* captures being (c[j], j) for the Placeholder positions j in ascending
\* order; it returns (empty, false) at the first Literal mismatch, whatever
\* captures it had accumulated.  For a chunk of another length the call
\* panics and returns nothing.
C7_MatchChunk ==
    /\ pc = "returned" =>
          /\ Len(chunk) = self.len
          /\ IF ChunkMatches(chunk)
             THEN chunk_ret[2] = TRUE /\ IsCapturesOf(chunk_ret[1], chunk)
             ELSE chunk_ret = << << >>, FALSE >> /\ IsFirstMismatch(chunk, index)
    /\ (op = "match_chunk" /\ Len(chunk) # self.len) =>
          pc = "panic" /\ ret = Panic("assert_eq!(self.len, chunk.len())")
    /\ (op = "match_chunk" /\ Len(chunk) = self.len) => pc # "panic"

\* match_chunk returned (empty, false) after it had captured a Placeholder
C7_Witness ==
    /\ op = "match_chunk"
    /\ pc = "returned"
    /\ chunk_ret = << << >>, FALSE >>
    /\ captures # << >>

\* two matching windows overlap
OverlappingMatches ==
    \E s, t \in MatchingStarts : s < t /\ t < s + L

\* the offsets of the returned sequence ascend
OffsetsAscend == \A k \in 1..(Len(ret) - 1) : ret[k][2] < ret[k + 1][2]
OffsetsNeverDescend == \A k \in 1..(Len(ret) - 1) : ret[k][2] <= ret[k + 1][2]

\* every matching window's captures are reported, and every reported
\* capture carries the byte at its absolute offset
AllCapturesReported ==
    /\ \A q \in CapturePoints :
           \E k \in 1..Len(ret) :
               ret[k] = << haystack[q[1] + q[2] + 1], q[1] + q[2] >>
    /\ \A k \in 1..Len(ret) :
           /\ ret[k][2] \in 0..(Len(haystack) - 1)
           /\ ret[k][1] = haystack[ret[k][2] + 1]

\* C6 as stated: when two or more overlapping windows match,
\* find_matches_with_index reports the captures of every matching window
\* with its absolute offset, and the offsets of the returned sequence are in
\* ascending order (here: never descend).
C6_OffsetsAscending ==
    (op = "find_matches_with_index" /\ pc = "done" /\ OverlappingMatches) =>
        AllCapturesReported /\ OffsetsNeverDescend

\* the m-th matching window start, m = 1, 2, ...
NthMatchingStart(m) ==
    CHOOSE s \in MatchingStarts :
        Cardinality({ t \in MatchingStarts : t < s }) = m - 1

\* C6 amended: when two or more overlapping windows match,
\* find_matches_with_index reports the captures of every matching window
\* with its absolute offset, window by window in ascending window start
\* offset and by ascending offset within a window; the offsets of the whole
\* returned sequence ascend when the Pattern has at most one Placeholder.
C6_WindowsAscending ==
    (op = "find_matches_with_index" /\ pc = "done" /\ OverlappingMatches) =>
        LET n == Cardinality(PlaceholderPositions)
            window(k) == NthMatchingStart(((k - 1) \div n) + 1)
        IN  /\ AllCapturesReported
            /\ Len(ret) = n * Cardinality(MatchingStarts)
            /\ \A k \in 1..Len(ret) :
                   (ret[k][2] - window(k)) \in PlaceholderPositions
            /\ \A k \in 1..(Len(ret) - 1) :
                   window(k) = window(k + 1) => ret[k][2] < ret[k + 1][2]
            /\ n <= 1 => OffsetsAscend

\* two overlapping windows matched "?? __ ??"-like Patterns with two
\* Placeholders, and the offsets of the result descend somewhere
C6_Witness ==
    /\ op = "find_matches_with_index"
    /\ pc = "done"
    /\ OverlappingMatches
    /\ Cardinality(PlaceholderPositions) = 2
    /\ ~ OffsetsNeverDescend

\* C10: a zero-length Pattern matches the empty window at every offset with
\* no captures: find_matches_with_index and find_matches return the empty
\* sequence, has_match returns true, and none of them panics.
C10_EmptyPattern ==
    (self.len = 0 /\ op \in {"find_matches_with_index", "find_matches", "has_match"}) =>
        /\ pc # "panic"
        /\ pc = "done" => ret = IF op = "has_match" THEN TRUE ELSE << >>

=============================================================================
